---- MODULE Spec2Model ----
(***************************************************************************)
(* Hybrid search and rank fusion of GovernmentGPT                          *)
(* (backend/hybrid_search_service.py, served by backend/enhanced_server.py)*)
(*                                                                         *)
(* Text is modelled character by character: a Python str is a sequence of  *)
(* one-character strings, so that lower(), split(), the `in` substring     *)
(* test and the regular expressions are computed as the code computes      *)
(* them.  Scores are exact rationals held as integers over a common        *)
(* denominator (ScoreUnit), where the code uses floats.                    *)
(***************************************************************************)
EXTENDS Integers, Sequences, FiniteSets, TLC

(***************************************************************************)
(* Python str primitives                                                   *)
(***************************************************************************)
UpperAlpha == <<"A","B","C","D","E","F","G","H","I","J","K","L","M",
                "N","O","P","Q","R","S","T","U","V","W","X","Y","Z">>
LowerAlpha == <<"a","b","c","d","e","f","g","h","i","j","k","l","m",
                "n","o","p","q","r","s","t","u","v","w","x","y","z">>
Digits == {"0","1","2","3","4","5","6","7","8","9"}

Range(s) == {s[i] : i \in 1..Len(s)}

IsUpperChar(c) == c \in Range(UpperAlpha)
IsLowerChar(c) == c \in Range(LowerAlpha)
IsDigit(c) == c \in Digits
IsSpace(c) == c = " "
\* \w of the re module, over the model's alphabet
IsWordChar(c) == IsUpperChar(c) \/ IsLowerChar(c) \/ IsDigit(c) \/ c = "_"

LowerChar(c) ==
    IF IsUpperChar(c)
    THEN LowerAlpha[CHOOSE i \in 1..26 : UpperAlpha[i] = c]
    ELSE c
UpperChar(c) ==
    IF IsLowerChar(c)
    THEN UpperAlpha[CHOOSE i \in 1..26 : LowerAlpha[i] = c]
    ELSE c

\* str.lower(), str.upper()
lower(s) == [i \in 1..Len(s) |-> LowerChar(s[i])]
upper(s) == [i \in 1..Len(s) |-> UpperChar(s[i])]

\* p occurs in s at (1-based) position i
OccursAt(p, s, i) == i + Len(p) - 1 <= Len(s) /\ SubSeq(s, i, i + Len(p) - 1) = p

\* the Python test `p in s` on two str
Contains(s, p) == \E i \in 1..(Len(s) - Len(p) + 1) : OccursAt(p, s, i)

RECURSIVE lstrip(_)
lstrip(s) == IF s # <<>> /\ IsSpace(Head(s)) THEN lstrip(Tail(s)) ELSE s
RECURSIVE rstrip(_)
rstrip(s) ==
    IF s # <<>> /\ IsSpace(s[Len(s)]) THEN rstrip(SubSeq(s, 1, Len(s) - 1)) ELSE s
\* str.strip()
strip(s) == rstrip(lstrip(s))

\* the length of the longest run of characters satisfying a class, from position i
RECURSIVE SpaceRun(_, _)
SpaceRun(s, i) == IF i <= Len(s) /\ IsSpace(s[i]) THEN 1 + SpaceRun(s, i + 1) ELSE 0
RECURSIVE DigitRun(_, _)
DigitRun(s, i) == IF i <= Len(s) /\ IsDigit(s[i]) THEN 1 + DigitRun(s, i + 1) ELSE 0
RECURSIVE NonSpaceRun(_, _)
NonSpaceRun(s, i) ==
    IF i <= Len(s) /\ ~IsSpace(s[i]) THEN 1 + NonSpaceRun(s, i + 1) ELSE 0

\* str.split(): the maximal runs of non-whitespace, in order
RECURSIVE SplitFrom(_, _)
SplitFrom(s, i) ==
    IF i > Len(s) THEN <<>>
    ELSE IF IsSpace(s[i]) THEN SplitFrom(s, i + 1)
    ELSE LET n == NonSpaceRun(s, i)
         IN  <<SubSeq(s, i, i + n - 1)>> \o SplitFrom(s, i + n)
split(s) == SplitFrom(s, 1)

\* ' '.join(words)
RECURSIVE join(_)
join(words) ==
    IF words = <<>> THEN <<>>
    ELSE IF Len(words) = 1 THEN words[1]
    ELSE words[1] \o <<" ">> \o join(Tail(words))

\* \b of the re module at the gap before position i (1-based; Len(s)+1 is the end)
WordBoundary(s, i) ==
    LET before == i > 1 /\ IsWordChar(s[i - 1])
        after  == i <= Len(s) /\ IsWordChar(s[i])
    IN  before # after

\* the literal p matches at i, ignoring case (re.IGNORECASE)
OccursAtI(p, s, i) ==
    i + Len(p) - 1 <= Len(s) /\ lower(SubSeq(s, i, i + Len(p) - 1)) = lower(p)

(***************************************************************************)
(* HybridSearchService._preprocess_query                                   *)
(***************************************************************************)
conversational_phrases ==
    <<
      <<"w","h","a","t"," ","c","a","n"," ","y","o","u"," ","t","e","l","l"," ","m","e">>,
      <<"t","e","l","l"," ","m","e"," ","a","b","o","u","t">>,
      <<"w","h","a","t"," ","a","r","e">>,
      <<"w","h","a","t"," ","i","s">>
    >>
key_term_stopwords ==
    <<
      <<"w","h","a","t">>,
      <<"c","a","n">>,
      <<"y","o","u">>,
      <<"t","e","l","l">>,
      <<"m","e">>,
      <<"a","b","o","u","t">>,
      <<"t","h","e">>,
      <<"a","r","e">>,
      <<"m","a","j","o","r">>,
      <<"m","o","s","t">>
    >>
important_phrases ==
    <<
      <<"o","n","e"," ","b","i","g"," ","b","e","a","u","t","i","f","u","l">>,
      <<"b","i","g"," ","b","e","a","u","t","i","f","u","l"," ","b","i","l","l">>,
      <<"i","n","f","r","a","s","t","r","u","c","t","u","r","e"," ","i","n","v","e","s","t","m","e","n","t">>,
      <<"j","o","b","s"," ","a","c","t">>,
      <<"b","e","a","u","t","i","f","u","l"," ","b","i","l","l">>,
      <<"i","n","f","r","a","s","t","r","u","c","t","u","r","e"," ","a","c","t">>,
      <<"i","n","v","e","s","t","m","e","n","t"," ","a","c","t">>
    >>
generic_nouns ==
    <<
      <<"b","i","l","l">>,
      <<"a","c","t">>,
      <<"r","e","s","o","l","u","t","i","o","n">>,
      <<"o","r","d","e","r">>,
      <<"l","e","g","i","s","l","a","t","i","o","n">>
    >>
hr_prefixes ==
    <<
      <<"h","r">>,
      <<"h",".","r",".">>,
      <<"h","o","u","s","e"," ","r","e","s","o","l","u","t","i","o","n">>
    >>
s_prefixes ==
    <<
      <<"s">>,
      <<"s","e","n","a","t","e">>
    >>
eo_prefixes ==
    <<
      <<"e","x","e","c","u","t","i","v","e"," ","o","r","d","e","r">>
    >>

\* any(p in s for p in table)
AnyIn(table, s) == \E k \in 1..Len(table) : Contains(s, table[k])

\* The length of the match of  \b(p1|p2|...)\s*(\d+)  at position i, 0 when there
\* is none; the alternatives are tried in order.
RECURSIVE NumberedMatch(_, _, _, _)
NumberedMatch(prefixes, s, i, k) ==
    IF k > Len(prefixes) THEN [len |-> 0, digits |-> <<>>]
    ELSE LET p  == prefixes[k]
             j  == i + Len(p)
             sp == SpaceRun(s, j)
             dg == DigitRun(s, j + sp)
         IN  IF OccursAtI(p, s, i) /\ dg > 0
             THEN [len |-> Len(p) + sp + dg, digits |-> SubSeq(s, j + sp, j + sp + dg - 1)]
             ELSE NumberedMatch(prefixes, s, i, k + 1)

\* re.sub(r'\b(p1|p2|...)\s*(\d+)', tag + digits, s, flags=re.IGNORECASE)
RECURSIVE SubNumbered(_, _, _, _)
SubNumbered(prefixes, tag, s, i) ==
    IF i > Len(s) THEN <<>>
    ELSE LET m == IF WordBoundary(s, i) THEN NumberedMatch(prefixes, s, i, 1)
                  ELSE [len |-> 0, digits |-> <<>>]
         IN  IF m.len > 0
             THEN tag \o m.digits \o SubNumbered(prefixes, tag, s, i + m.len)
             ELSE <<s[i]>> \o SubNumbered(prefixes, tag, s, i + 1)

\* The length of the match of  \b(bill|act|...)\b(?!\s+\w)  at position i, 0 when none
RECURSIVE NounMatch(_, _, _)
NounMatch(s, i, k) ==
    IF k > Len(generic_nouns) THEN 0
    ELSE LET p  == generic_nouns[k]
             j  == i + Len(p)
             sp == SpaceRun(s, j)
         IN  IF /\ OccursAtI(p, s, i)
                /\ WordBoundary(s, j)
                /\ ~(sp > 0 /\ j + sp <= Len(s) /\ IsWordChar(s[j + sp]))
             THEN Len(p)
             ELSE NounMatch(s, i, k + 1)

\* re.sub(r'\b(bill|act|resolution|order|legislation)\b(?!\s+\w)', '', s)
RECURSIVE SubNouns(_, _)
SubNouns(s, i) ==
    IF i > Len(s) THEN <<>>
    ELSE LET n == IF WordBoundary(s, i) THEN NounMatch(s, i, 1) ELSE 0
         IN  IF n > 0 THEN SubNouns(s, i + n)
             ELSE <<s[i]>> \o SubNouns(s, i + 1)

\* re.sub(r'\s+', ' ', s)
RECURSIVE SubSpaces(_, _)
SubSpaces(s, i) ==
    IF i > Len(s) THEN <<>>
    ELSE IF IsSpace(s[i]) THEN <<" ">> \o SubSpaces(s, i + SpaceRun(s, i))
    ELSE <<s[i]>> \o SubSpaces(s, i + 1)

\* [word.lower() for word in words if len(word) > 4 and word.lower() not in stoplist]
RECURSIVE KeyTerms(_)
KeyTerms(words) ==
    IF words = <<>> THEN <<>>
    ELSE LET w == lower(Head(words))
         IN  (IF Len(w) > 4 /\ w \notin Range(key_term_stopwords) THEN <<w>> ELSE <<>>)
             \o KeyTerms(Tail(words))

Take(s, n) == SubSeq(s, 1, IF n < Len(s) THEN n ELSE Len(s))

\* lines 428-448: the numbering patterns, the noun removal and the whitespace clean-up
normalize_patterns(query) ==
    LET q1 == SubNumbered(hr_prefixes, <<"H","R","-">>, query, 1)
        q2 == SubNumbered(s_prefixes, <<"S","-">>, q1, 1)
        q3 == SubNumbered(eo_prefixes, <<"E","O","-">>, q2, 1)
        preserve_phrase == AnyIn(important_phrases, lower(q3))
        q4 == IF ~preserve_phrase THEN SubNouns(q3, 1) ELSE q3
    IN  strip(SubSpaces(q4, 1))

_preprocess_query(query) ==
    LET query_lower == lower(query)
        key_terms == KeyTerms(split(query))
    IN  IF AnyIn(conversational_phrases, query_lower)
        THEN IF Contains(query_lower, <<"b","i","g"," ","b","e","a","u","t","i","f","u","l"," ","b","i","l","l">>)
             THEN <<"b","i","g"," ","b","e","a","u","t","i","f","u","l"," ","b","i","l","l"," ","i","n","f","r","a","s","t","r","u","c","t","u","r","e">>
             ELSE IF /\ Contains(query_lower, <<"i","n","f","r","a","s","t","r","u","c","t","u","r","e">>)
                     /\ \/ Contains(query_lower, <<"i","n","v","e","s","t","m","e","n","t">>)
                        \/ Contains(query_lower, <<"j","o","b","s">>)
             THEN <<"i","n","f","r","a","s","t","r","u","c","t","u","r","e"," ","i","n","v","e","s","t","m","e","n","t"," ","j","o","b","s"," ","a","c","t">>
             ELSE IF Contains(query_lower, <<"c","l","i","m","a","t","e">>)
             THEN <<"c","l","i","m","a","t","e"," ","c","h","a","n","g","e"," ","l","e","g","i","s","l","a","t","i","o","n">>
             ELSE IF key_terms # <<>> THEN join(Take(key_terms, 4))
             ELSE normalize_patterns(query)
        ELSE normalize_patterns(query)

(***************************************************************************)
(* HybridSearchService._extract_identifiers, _extract_potential_sponsors   *)
(***************************************************************************)
\* re.findall(r'\b<PREFIX>-?\s*(\d+)', query, re.IGNORECASE), tag + num for each
RECURSIVE FindNumbers(_, _, _, _)
FindNumbers(prefix, tag, s, i) ==
    IF i > Len(s) THEN <<>>
    ELSE LET j  == i + Len(prefix)
             j2 == IF j <= Len(s) /\ s[j] = "-" THEN j + 1 ELSE j
             sp == SpaceRun(s, j2)
             dg == DigitRun(s, j2 + sp)
         IN  IF WordBoundary(s, i) /\ OccursAtI(prefix, s, i) /\ dg > 0
             THEN <<tag \o SubSeq(s, j2 + sp, j2 + sp + dg - 1)>>
                  \o FindNumbers(prefix, tag, s, j2 + sp + dg)
             ELSE FindNumbers(prefix, tag, s, i + 1)

_extract_identifiers(query) ==
    FindNumbers(<<"H","R">>, <<"H","R","-">>, query, 1)
    \o FindNumbers(<<"S">>, <<"S","-">>, query, 1)
    \o FindNumbers(<<"E","O">>, <<"E","O","-">>, query, 1)

RECURSIVE SponsorsFrom(_, _)
SponsorsFrom(words, i) ==
    IF i > Len(words) THEN <<>>
    ELSE LET word == words[i]
         IN  (IF IsUpperChar(word[1]) /\ Len(word) > 2
              THEN (IF i + 1 <= Len(words) /\ IsUpperChar(words[i + 1][1])
                    THEN <<word \o <<" ">> \o words[i + 1]>> ELSE <<>>)
                   \o <<word>>
              ELSE <<>>)
             \o SponsorsFrom(words, i + 1)

_extract_potential_sponsors(query) == SponsorsFrom(split(query), 1)

(***************************************************************************)
(* The documents table (minimal_init.Document).  Rows are numbered in      *)
(* rowid order, which is the order an unordered SELECT returns them in.    *)
(* doc_metadata is the sequence of the JSON strings (keys and values) of   *)
(* the stored JSON text; embedding is the row of document_embeddings, <<>> *)
(* when the document has none; last_action_date is a day number.           *)
(***************************************************************************)
DocumentPool ==
    << [id |-> 1, document_type |-> "bill",
       identifier |-> <<"H","R","-","1","2","-","1","1","8">>,
       title |-> <<"B","e","a","u","t","i","f","u","l"," ","P","a","r","k","s"," ","B","i","l","l">>,
       summary |-> <<"p","a","r","k","s">>,
       full_text |-> <<"p","a","r","k","s">>,
       last_action_date |-> 4,
       doc_metadata |-> <<<<"s","p","o","n","s","o","r">>, <<"J","a","n","e"," ","D","o","e">>>>,
       embedding |-> <<3, 4, 0, 0>>],
       [id |-> 2, document_type |-> "bill",
       identifier |-> <<"H","R","-","1","-","1","1","9">>,
       title |-> <<"O","n","e"," ","B","i","g"," ","B","e","a","u","t","i","f","u","l"," ","B","i","l","l"," ","A","c","t"," ","o","f"," ","2","0","2","5">>,
       summary |-> <<"t","a","x">>,
       full_text |-> <<"o","n","e"," ","b","i","g"," ","b","e","a","u","t","i","f","u","l"," ","b","i","l","l">>,
       last_action_date |-> 3,
       doc_metadata |-> <<>>,
       embedding |-> <<4, 3, 0, 0>>],
       [id |-> 3, document_type |-> "bill",
       identifier |-> <<"H","R","-","3","6","8","4","-","1","1","7">>,
       title |-> <<"I","n","f","r","a","s","t","r","u","c","t","u","r","e"," ","I","n","v","e","s","t","m","e","n","t"," ","a","n","d"," ","J","o","b","s"," ","A","c","t">>,
       summary |-> <<"r","o","a","d","s"," ","a","n","d"," ","j","o","b","s">>,
       full_text |-> <<"i","n","f","r","a","s","t","r","u","c","t","u","r","e">>,
       last_action_date |-> 1,
       doc_metadata |-> <<<<"s","p","o","n","s","o","r">>, <<"J","o","h","n"," ","S","m","i","t","h">>>>,
       embedding |-> <<1, 0, 0, 0>>],
       [id |-> 4, document_type |-> "executive_order",
       identifier |-> <<"E","O","-","1","4","0","0","1">>,
       title |-> <<"H","R","-","3","6","8","4"," ","F","u","n","d","i","n","g"," ","O","r","d","e","r">>,
       summary |-> <<"h","r","-","3","6","8","4">>,
       full_text |-> <<"h","r","-","3","6","8","4">>,
       last_action_date |-> 2,
       doc_metadata |-> <<>>,
       embedding |-> <<>>] >>

DocIds == 1..Len(DocumentPool)
Doc(d) == DocumentPool[d]

\* the corpora a service may be started on
Corpora == {{}, {1, 2}, {3, 4}, DocIds}

\* the query strings of the requests
Queries ==
    { <<"H","R","-","3","6","8","4">>,
      <<"o","n","e"," ","b","i","g"," ","b","e","a","u","t","i","f","u","l"," ","b","i","l","l"," ","a","c","t">>,
      <<"H","R","-","1","-","1","1","9">>,
      <<" "," ">>,
      <<"H","R","-","3","6","8","4"," ","J","o","h","n"," ","S","m","i","t","h">>,
      <<"w","h","a","t"," ","i","s"," ","t","h","e"," ","b","i","g"," ","b","e","a","u","t","i","f","u","l"," ","b","i","l","l">>,
      <<"i","n","f","r","a","s","t","r","u","c","t","u","r","e"," ","b","i","l","l">> }

\* the limits of the requests: two outside [1, 50] and two inside
Limits == {0, 1, 2, 51}

\* limit: int = Field(20, ge=1, le=50) of app/schemas/search.py
LimitMin == 1
LimitMax == 50

\* the most rows the full-text index returns to one query in the model
MaxFtsRows == 2

(***************************************************************************)
(* Sequence helpers: list slicing, SQL LIMIT, stable sorts                 *)
(***************************************************************************)
\* the Python slice s[:n]
PySlice(s, n) ==
    IF n >= 0 THEN Take(s, n)
    ELSE SubSeq(s, 1, IF Len(s) + n > 0 THEN Len(s) + n ELSE 0)

\* SQL LIMIT n (SQLite: a negative LIMIT is no limit)
SqlLimit(rows, n) == IF n < 0 THEN rows ELSE Take(rows, n)

\* the ids of a set in rowid order
RECURSIVE RowOrder(_)
RowOrder(S) ==
    IF S = {} THEN <<>>
    ELSE LET m == CHOOSE x \in S : \A y \in S : x <= y
         IN  <<m>> \o RowOrder(S \ {m})

\* list.sort(key=..., reverse=True) and sorted(..., reverse=True) are stable:
\* elements with equal keys keep their order.  Elements are [key, item].
RECURSIVE InsertDesc(_, _)
InsertDesc(sorted, x) ==
    IF sorted = <<>> THEN <<x>>
    ELSE IF Head(sorted).key >= x.key
         THEN <<Head(sorted)>> \o InsertDesc(Tail(sorted), x)
         ELSE <<x>> \o sorted
RECURSIVE SortDesc(_)
SortDesc(s) ==
    IF s = <<>> THEN <<>>
    ELSE InsertDesc(SortDesc(SubSeq(s, 1, Len(s) - 1)), s[Len(s)])

Items(s) == [i \in 1..Len(s) |-> s[i].item]

(***************************************************************************)
(* Strategy-local scores are held in hundredths (1.0 is 100).              *)
(***************************************************************************)
\* _calculate_text_relevance: 3.0, 2.0, 1.0 per matching term and field, 5.0 for
\* the whole query inside the identifier
CountIn(terms, text) == Cardinality({k \in 1..Len(terms) : Contains(text, terms[k])})

_calculate_text_relevance(query, d) ==
    LET query_terms == split(lower(query))
    IN  300 * CountIn(query_terms, lower(Doc(d).title))
        + 200 * CountIn(query_terms, lower(Doc(d).summary))
        + 100 * CountIn(query_terms, lower(Doc(d).full_text))
        + (IF Contains(upper(Doc(d).identifier), upper(query)) THEN 500 ELSE 0)

\* ORDER BY last_action_date DESC (the pool's dates are distinct)
ByDateDesc(S) ==
    Items(SortDesc([i \in 1..Cardinality(S) |->
        [key |-> Doc(RowOrder(S)[i]).last_action_date, item |-> RowOrder(S)[i]]]))

\* column ILIKE '%term%'
ILike(field, term) == Contains(lower(field), lower(term))

RECURSIVE LongTerms(_)
LongTerms(words) ==
    IF words = <<>> THEN <<>>
    ELSE (IF Len(Head(words)) > 2 THEN <<Head(words)>> ELSE <<>>) \o LongTerms(Tail(words))

_enhanced_like_search(corpus, query, limit) ==
    LET search_terms == LongTerms(split(lower(query)))
        term_condition(d, term) ==
            \/ ILike(Doc(d).title, term)
            \/ ILike(Doc(d).summary, term)
            \/ ILike(Doc(d).full_text, term)
            \/ ILike(Doc(d).identifier, term)
        matching == {d \in corpus :
                        \A k \in 1..Len(search_terms) : term_condition(d, search_terms[k])}
        documents == SqlLimit(ByDateDesc(matching), limit * 2)
        scored_results == [i \in 1..Len(documents) |->
            [key |-> _calculate_text_relevance(query, documents[i]), item |-> documents[i]]]
        sorted == SortDesc(scored_results)
    IN  IF search_terms = <<>>
        THEN LET recent == SqlLimit(ByDateDesc(corpus), limit)
             IN  [i \in 1..Len(recent) |-> [id |-> recent[i], score |-> 50]]
        ELSE PySlice([i \in 1..Len(sorted) |-> [id |-> sorted[i].item, score |-> sorted[i].key]],
                     limit)

(***************************************************************************)
(* _semantic_search.  The sentence-transformers model is outside the       *)
(* repository: encode stands for a deterministic embedding of the text.    *)
(* The vectors of the model have integer norms, so that the cosine is an   *)
(* exact number of hundredths.                                             *)
(***************************************************************************)
encode(text) ==
    IF Contains(lower(text), <<"b","e","a","u","t","i","f","u","l">>) THEN <<4, 3, 0, 0>>
    ELSE IF Contains(lower(text), <<"i","n","f","r","a","s","t","r","u","c","t","u","r","e">>) THEN <<1, 0, 0, 0>>
    ELSE IF Contains(lower(text), <<"t","a","x">>) THEN <<1, 3, 3, 9>>
    ELSE <<0, 1, 0, 0>>

Dot(u, v) == u[1] * v[1] + u[2] * v[2] + u[3] * v[3] + u[4] * v[4]
Norm(u) == CHOOSE n \in 0..Dot(u, u) : n * n = Dot(u, u)
\* np.dot(q, d) / (np.linalg.norm(q) * np.linalg.norm(d)), in hundredths
CosineSimilarity(u, v) == (Dot(u, v) * 100) \div (Norm(u) * Norm(v))

\* `if similarity > 0.1`
MinSimilarity == 10
\* LIMIT 1000 of the embeddings query
EmbeddingRowCap == 1000

_semantic_search(corpus, query, limit) ==
    LET query_embedding == encode(query)
        rows == SqlLimit(RowOrder({d \in corpus : Doc(d).embedding # <<>>}), EmbeddingRowCap)
        sims == [i \in 1..Len(rows) |->
                    [key |-> CosineSimilarity(query_embedding, Doc(rows[i]).embedding),
                     item |-> rows[i]]]
        kept == SortDesc(SelectSeq(sims, LAMBDA x : x.key > MinSimilarity))
    IN  PySlice([i \in 1..Len(kept) |-> [id |-> kept[i].item, score |-> kept[i].key]], limit)

(***************************************************************************)
(* _metadata_search                                                        *)
(***************************************************************************)
\* doc_metadata LIKE '%"term"%': the term is one of the JSON strings of the text
MetadataHas(d, term) ==
    \E k \in 1..Len(Doc(d).doc_metadata) : lower(Doc(d).doc_metadata[k]) = lower(term)

\* lines 251-257: the rows of each identifier pattern in turn, scored 1.0
RECURSIVE IdentifierRows(_, _)
IdentifierRows(corpus, patterns) ==
    IF patterns = <<>> THEN <<>>
    ELSE LET docs == RowOrder({d \in corpus : ILike(Doc(d).identifier, Head(patterns))})
         IN  [i \in 1..Len(docs) |-> [id |-> docs[i], score |-> 100]]
             \o IdentifierRows(corpus, Tail(patterns))

\* lines 262-268: the rows of each sponsor term in turn, scored 0.8
RECURSIVE SponsorRows(_, _)
SponsorRows(corpus, terms) ==
    IF terms = <<>> THEN <<>>
    ELSE LET docs == RowOrder({d \in corpus : MetadataHas(d, Head(terms))})
         IN  [i \in 1..Len(docs) |-> [id |-> docs[i], score |-> 80]]
             \o SponsorRows(corpus, Tail(terms))

\* a deduplication that keeps the last entry of each document id
RECURSIVE UniqueKeepLast(_, _)
UniqueKeepLast(results, seen_ids) ==
    IF results = <<>> THEN <<>>
    ELSE IF \E k \in 2..Len(results) : results[k].id = Head(results).id
         THEN UniqueKeepLast(Tail(results), seen_ids)
         ELSE <<Head(results)>> \o UniqueKeepLast(Tail(results), seen_ids)

\* lines 270-276: keep the first entry of each document id
RECURSIVE Unique(_, _)
Unique(results, seen_ids) ==
    IF results = <<>> THEN <<>>
    ELSE IF Head(results).id \in seen_ids THEN Unique(Tail(results), seen_ids)
    ELSE <<Head(results)>> \o Unique(Tail(results), seen_ids \cup {Head(results).id})

_metadata_search(corpus, query, limit) ==
    LET identifier_patterns == _extract_identifiers(query)
        sponsor_terms == _extract_potential_sponsors(query)
        results == IdentifierRows(corpus, identifier_patterns)
                   \o SponsorRows(corpus, sponsor_terms)
        unique_results == Unique(results, {})
    IN  PySlice(unique_results, limit)

(***************************************************************************)
(* _weighted_rank_fusion.  Weights are held in tenths.  A fused score is   *)
(* an integer number of 1/ScoreUnit: the reciprocal ranks 1/(k + rank + 1) *)
(* of every rank a list of the model can have are exact over RRFDen.       *)
(***************************************************************************)
\* k: int = 60
K == 60
\* (fts_results, 0.5), (semantic_results, 0.3), (metadata_results, 0.2)
LexicalWeight == 5
SemanticWeight == 3
MetadataWeight == 2

RECURSIVE Gcd(_, _)
Gcd(a, b) == IF b = 0 THEN a ELSE Gcd(b, a % b)
RECURSIVE LcmUpTo(_)
LcmUpTo(n) ==
    IF n = 0 THEN 1
    ELSE LET m == LcmUpTo(n - 1) IN (m \div Gcd(m, K + n)) * (K + n)
\* a strategy list holds a document once, so no rank exceeds the pool's size
RRFDen == LcmUpTo(Len(DocumentPool))
\* 1.0 as a fused score
ScoreUnit == 10 * RRFDen

\* weight * (1 / (k + rank + 1))
rrf_score(weight, rank) == weight * (RRFDen \div (K + rank + 1))

important_terms ==
    <<
      <<"i","n","f","r","a","s","t","r","u","c","t","u","r","e">>,
      <<"b","e","a","u","t","i","f","u","l">>,
      <<"j","o","b","s">>,
      <<"i","n","v","e","s","t","m","e","n","t">>
    >>

\* lines 297-314: the phrase bonus of one title, in tenths
phrase_bonus(current_query, doc_title) ==
    LET original_query == lower(current_query)
        title == lower(doc_title)
        words == split(original_query)
        matching_words ==
            Cardinality({k \in 1..Len(words) : Contains(title, words[k]) /\ Len(words[k]) > 3})
        phrase == IF Len(words) > 2
                  THEN IF Contains(title, original_query) THEN 20 ELSE 5 * matching_words
                  ELSE 0
        terms == Cardinality({k \in 1..Len(important_terms) :
                     /\ Contains(original_query, important_terms[k])
                     /\ Contains(title, important_terms[k])})
    IN  phrase + 10 * terms

\* contributions that grow with the score the strategy gave the document
RankContribsByLocalScore(results, weight) ==
    [i \in 1..Len(results) |->
        [id |-> results[i].id, rrf |-> (rrf_score(weight, i - 1) * results[i].score) \div 100,
         weight |-> weight, rank |-> i - 1]]

\* enumerate(results) of one list: one contribution per rank
RankContribs(results, weight) ==
    [i \in 1..Len(results) |->
        [id |-> results[i].id, rrf |-> rrf_score(weight, i - 1), weight |-> weight, rank |-> i - 1]]

RECURSIVE AllContribs(_)
AllContribs(result_lists) ==
    IF result_lists = <<>> THEN <<>>
    ELSE RankContribs(Head(result_lists).results, Head(result_lists).weight)
         \o AllContribs(Tail(result_lists))

\* doc_scores as a list that takes one entry per contribution
RECURSIVE AccumulateNoMerge(_, _)
AccumulateNoMerge(contribs, doc_scores) ==
    IF contribs = <<>> THEN doc_scores
    ELSE LET c == Head(contribs)
         IN  AccumulateNoMerge(Tail(contribs),
                 Append(doc_scores, [id |-> c.id, score |-> c.rrf,
                                     sources |-> <<[weight |-> c.weight, rank |-> c.rank]>>]))

\* lines 285-294: doc_scores, a dict in insertion order
RECURSIVE Accumulate(_, _)
Accumulate(contribs, doc_scores) ==
    IF contribs = <<>> THEN doc_scores
    ELSE LET c == Head(contribs)
             source == [weight |-> c.weight, rank |-> c.rank]
             updated ==
                 IF \E i \in 1..Len(doc_scores) : doc_scores[i].id = c.id
                 THEN [i \in 1..Len(doc_scores) |->
                          IF doc_scores[i].id = c.id
                          THEN [doc_scores[i] EXCEPT !.score = @ + c.rrf,
                                                     !.sources = Append(@, source)]
                          ELSE doc_scores[i]]
                 ELSE Append(doc_scores, [id |-> c.id, score |-> c.rrf, sources |-> <<source>>])
         IN  Accumulate(Tail(contribs), updated)

\* line 317: final_score = score + phrase_bonus
final_score(entry, current_query) ==
    entry.score + phrase_bonus(current_query, Doc(entry.id).title) * RRFDen

\* doc_scores.values() as it stands, not sorted
RankDocsUnsorted(doc_scores, current_query) ==
    [i \in 1..Len(doc_scores) |->
        [key |-> final_score(doc_scores[i], current_query), item |-> doc_scores[i]]]

\* a descending sort that lists equal scores in the reverse of insertion order
RankDocsTiesReversed(doc_scores, current_query) ==
    SortDesc([i \in 1..Len(doc_scores) |->
        [key |-> final_score(doc_scores[Len(doc_scores) + 1 - i], current_query),
         item |-> doc_scores[Len(doc_scores) + 1 - i]]])

\* line 320: sorted(doc_scores.values(), key=final_score, reverse=True)
RankDocs(doc_scores, current_query) ==
    SortDesc([i \in 1..Len(doc_scores) |->
        [key |-> final_score(doc_scores[i], current_query), item |-> doc_scores[i]]])

\* a fusion that returns the whole sorted list
FusionUntruncated(result_lists, limit, current_query) ==
    LET doc_scores == Accumulate(AllContribs(result_lists), <<>>)
        top == RankDocs(doc_scores, current_query)
    IN  [i \in 1..Len(top) |-> [id |-> top[i].item.id, relevance_score |-> top[i].key]]

\* a fusion that gives up when a strategy contributed nothing
FusionOfCompleteLists(result_lists, limit, current_query) ==
    IF \E i \in 1..Len(result_lists) : result_lists[i].results = <<>>
    THEN <<>>
    ELSE LET doc_scores == Accumulate(AllContribs(result_lists), <<>>)
             top == PySlice(RankDocs(doc_scores, current_query), limit)
         IN  [i \in 1..Len(top) |-> [id |-> top[i].item.id, relevance_score |-> top[i].key]]

\* result_lists is a sequence of [results, weight]; current_query is the value of
\* self._current_query that line 297 reads
_weighted_rank_fusion(result_lists, limit, current_query) ==
    LET doc_scores == Accumulate(AllContribs(result_lists), <<>>)
        ranked_docs == RankDocs(doc_scores, current_query)
        top == PySlice(ranked_docs, limit)
    IN  [i \in 1..Len(top) |-> [id |-> top[i].item.id, relevance_score |-> top[i].key]]

\* lines 99-103 of hybrid_search
Fuse(fts_results, semantic_results, metadata_results, limit, current_query) ==
    _weighted_rank_fusion(<<[results |-> fts_results, weight |-> LexicalWeight],
                            [results |-> semantic_results, weight |-> SemanticWeight],
                            [results |-> metadata_results, weight |-> MetadataWeight]>>,
                          limit, current_query)

(***************************************************************************)
(* _calculate_semantic_confidence, in units of 1/ConfUnit                  *)
(***************************************************************************)
ConfUnit == 120 * RRFDen

Min(a, b) == IF a <= b THEN a ELSE b

RECURSIVE SumScores(_)
SumScores(documents) ==
    IF documents = <<>> THEN 0
    ELSE Head(documents).relevance_score + SumScores(Tail(documents))

\* lines 519-521: one pass of the loop per document of the top three
RECURSIVE IdentifierBoost(_, _, _)
IdentifierBoost(query, documents, base_confidence) ==
    IF documents = <<>> THEN base_confidence
    ELSE IdentifierBoost(query, Tail(documents),
            IF Contains(upper(Doc(Head(documents).id).identifier), upper(query))
            THEN Min(base_confidence + 36 * RRFDen, ConfUnit)
            ELSE base_confidence)

\* the confidence without the final min(..., 1.0)
ConfidenceUnclamped(query, documents) ==
    IF documents = <<>> THEN 0
    ELSE LET top3 == Take(documents, 3)
             base_confidence ==
                 IdentifierBoost(query, top3, Min(12 * RRFDen * Len(documents), ConfUnit))
             total == SumScores(top3)
         IN  base_confidence + Min((6 \div Len(top3)) * total, 48 * RRFDen)

_calculate_semantic_confidence(query, documents) ==
    IF documents = <<>> THEN 0
    ELSE LET top3 == Take(documents, 3)
             base_confidence ==
                 IdentifierBoost(query, top3, Min(12 * RRFDen * Len(documents), ConfUnit))
             total == SumScores(top3)
             \* min(avg_relevance * 0.5, 0.4), avg_relevance = total / len(top3)
             confidence_boost ==
                 IF total >= 8 * RRFDen * Len(top3) THEN 48 * RRFDen
                 ELSE (6 \div Len(top3)) * total
         IN  Min(base_confidence + confidence_boost, ConfUnit)

(***************************************************************************)
(* _generate_intelligent_suggestions: `suggestions` is a Python set, and   *)
(* list(suggestions)[:5] enumerates it in an order the language leaves     *)
(* open.  A suggestion result is [list, unordered]: `list` is a fixed      *)
(* list, `unordered` the set of which the response lists every element in  *)
(* some order.                                                             *)
(***************************************************************************)
FallbackSuggestions ==
    <<"infrastructure spending", "healthcare reform", "defense authorization",
      "climate legislation", "tax reform">>
\* _no_results_response
NoResultsSuggestions ==
    <<"infrastructure bill", "healthcare legislation", "defense authorization",
      "budget resolution", "executive orders">>
\* _error_response
ErrorSuggestions == <<"Try a different search term", "Check your internet connection">>

suggestion_stopwords ==
    <<
      <<"b","i","l","l">>,
      <<"a","c","t">>,
      <<"r","e","s","o","l","u","t","i","o","n">>,
      <<"o","r","d","e","r">>
    >>

\* lines 546-550: the words of one title, until the set holds three
RECURSIVE AddTitleWords(_, _)
AddTitleWords(title_words, suggestions) ==
    IF title_words = <<>> THEN suggestions
    ELSE LET word == Head(title_words)
         IN  IF Len(word) > 4 /\ word \notin Range(suggestion_stopwords)
             THEN IF Cardinality(suggestions \cup {word}) >= 3
                  THEN suggestions \cup {word}
                  ELSE AddTitleWords(Tail(title_words), suggestions \cup {word})
             ELSE AddTitleWords(Tail(title_words), suggestions)

RECURSIVE AddTitles(_, _)
AddTitles(documents, suggestions) ==
    IF documents = <<>> THEN suggestions
    ELSE AddTitles(Tail(documents),
                   AddTitleWords(split(lower(Doc(Head(documents).id).title)), suggestions))

\* the sets list(suggestions)[:5] may list: the set itself, or any five of it
FirstFive(S) ==
    IF Cardinality(S) <= 5 THEN {S} ELSE {T \in SUBSET S : Cardinality(T) = 5}

\* the set of the results _generate_intelligent_suggestions may return
_generate_intelligent_suggestions(query, documents) ==
    IF documents = <<>> THEN {[list |-> FallbackSuggestions, unordered |-> {}]}
    ELSE LET words == AddTitles(Take(documents, 3), {})
             top5 == Take(documents, 5)
             doc_types == {Doc(top5[i].id).document_type : i \in 1..Len(top5)}
             labels ==
                 (IF "bill" \in doc_types
                  THEN {<<"c","o","n","g","r","e","s","s","i","o","n","a","l"," ","b","i","l","l","s">>} ELSE {})
                 \cup (IF "executive_order" \in doc_types
                       THEN {<<"e","x","e","c","u","t","i","v","e"," ","o","r","d","e","r","s">>} ELSE {})
         IN  {[list |-> <<>>, unordered |-> T] : T \in FirstFive(words \cup labels)}

(***************************************************************************)
(* The service and its requests.                                           *)
(*                                                                         *)
(* enhanced_server.py holds one HybridSearchService, search_service, for   *)
(* the whole process; every request is a coroutine on one event loop, and  *)
(* coroutines interleave at their awaits only.  A step of the model is the *)
(* code a coroutine runs between two awaits on the database or the network.*)
(***************************************************************************)
\* the request coroutines that may be in flight together
MaxInFlight == 2
Slots == 1..MaxInFlight

Endpoints == {"search", "simple"}

\* abs(bm25) of a row of the full-text index, in hundredths
Bm25Scores == {100, 200}

VARIABLES
    corpus,            \* the ids of the rows of the documents table
    semantic_enabled,  \* self.semantic_enabled, set by __init__
    _current_query,    \* self._current_query; <<>> while the attribute is unset
    pc,                \* where each request coroutine is suspended
    request,           \* the SearchRequest of each coroutine
    hybrid_query,      \* hybrid_search's parameter `query`
    fts_results,       \* hybrid_search's locals
    semantic_results,
    metadata_results,
    warm,              \* history: the request arrived after another query's request
    invoked,           \* history: the strategies the request has called
    raised,            \* history: the places where the request met an exception
    response           \* what the request returns

vars == <<corpus, semantic_enabled, _current_query, pc, request, hybrid_query,
          fts_results, semantic_results, metadata_results, warm, invoked, raised, response>>

NoRequest == [endpoint |-> "", query |-> <<>>, limit |-> 0]
NoSuggestions == [list |-> <<>>, unordered |-> {}]
NoResponse ==
    [status |-> 0, search_type |-> "", documents |-> <<>>, confidence |-> 0,
     suggestions |-> NoSuggestions]

\* line 122 / line 170: `if not request.query.strip()`
QueryIsBlank(query) == strip(query) = <<>>

\* _error_response, returned by search_with_ai_response's except clause (line 79)
_error_response ==
    [status |-> 200, search_type |-> "error", documents |-> <<>>, confidence |-> 0,
     suggestions |-> [list |-> ErrorSuggestions, unordered |-> {}]]

\* _no_results_response, as the result of search_with_ai_response (lines 334-335, 64-75)
_no_results_response ==
    [status |-> 200, search_type |-> "hybrid", documents |-> <<>>, confidence |-> 0,
     suggestions |-> [list |-> NoResultsSuggestions, unordered |-> {}]]

\* the rows the full-text index may return: a collaborator outside the repository,
\* so any rows of the corpus, best bm25 first, at most LIMIT :limit of them
FtsRowLists(docs, limit) ==
    LET cap == Min(MaxFtsRows, Len(SqlLimit(RowOrder(docs), limit)))
    IN  UNION {{rows \in [1..n -> [id : docs, score : Bm25Scores]] :
                   /\ \A i, j \in 1..n : i < j =>
                          rows[i].id # rows[j].id /\ rows[i].score >= rows[j].score}
               : n \in 1..cap}

\* the attribute set by the first request only
StoreCurrentQueryOnce(query, previous) == IF previous = <<>> THEN query ELSE previous

\* line 85: self._current_query = query
StoreCurrentQuery(query, previous) == query

\* The enhanced_search / simple_search endpoint, up to the first await of
\* _full_text_search: validation, _preprocess_query and line 85.
Receive(r, endpoint, query, limit) ==
    /\ pc[r] = "idle"
    /\ request' = [request EXCEPT ![r] = [endpoint |-> endpoint, query |-> query, limit |-> limit]]
    /\ IF QueryIsBlank(query)
       THEN /\ response' = [response EXCEPT ![r] = [NoResponse EXCEPT !.status = 400]]
            /\ pc' = [pc EXCEPT ![r] = "done"]
            /\ UNCHANGED <<_current_query, hybrid_query, warm, invoked>>
       ELSE LET q == IF endpoint = "search" THEN _preprocess_query(query) ELSE query
            IN  /\ hybrid_query' = [hybrid_query EXCEPT ![r] = q]
                /\ _current_query' = StoreCurrentQuery(q, _current_query)
                /\ warm' = [warm EXCEPT ![r] = _current_query \notin {<<>>, q}]
                /\ invoked' = [invoked EXCEPT ![r] = {"lexical"}]
                /\ pc' = [pc EXCEPT ![r] = "fts"]
                /\ UNCHANGED response
    /\ UNCHANGED <<corpus, semantic_enabled, fts_results, semantic_results,
                   metadata_results, raised>>

\* the metadata strategy started right after the lexical one, the semantic
\* strategy never awaited
AfterLexicalSkipSemantic(r) ==
    /\ pc' = [pc EXCEPT ![r] = "metadata"]
    /\ invoked' = [invoked EXCEPT ![r] = @ \cup {"metadata"}]

\* lines 90-96: after the lexical list, the semantic strategy or, with
\* semantic_enabled false, straight to the metadata strategy
AfterLexical(r) ==
    IF semantic_enabled
    THEN /\ pc' = [pc EXCEPT ![r] = "semantic"]
         /\ invoked' = [invoked EXCEPT ![r] = @ \cup {"semantic"}]
    ELSE /\ pc' = [pc EXCEPT ![r] = "metadata"]
         /\ invoked' = [invoked EXCEPT ![r] = @ \cup {"metadata"}]

\* an exception leaves hybrid_search: search_with_ai_response returns
\* _error_response (line 79), simple_search answers 500 (line 207)
Fail(r) ==
    /\ response' = [response EXCEPT ![r] =
           IF request[r].endpoint = "search" THEN _error_response
           ELSE [NoResponse EXCEPT !.status = 500]]
    /\ pc' = [pc EXCEPT ![r] = "done"]

\* lines 111-135: the FTS5 query returns rows, returns none, or raises
FtsReturn(r) ==
    /\ pc[r] = "fts"
    /\ \E outcome \in {"rows", "empty", "error"} :
          IF outcome = "rows"
          THEN /\ \E rows \in FtsRowLists(corpus, request[r].limit) :
                      fts_results' = [fts_results EXCEPT ![r] = rows]
               /\ AfterLexical(r)
               /\ UNCHANGED raised
          ELSE /\ pc' = [pc EXCEPT ![r] = "like"]
               /\ raised' = [raised EXCEPT ![r] =
                      IF outcome = "error" THEN @ \cup {"fts"} ELSE @]
               /\ UNCHANGED <<fts_results, invoked>>
    /\ UNCHANGED <<corpus, semantic_enabled, _current_query, request, hybrid_query,
                   semantic_results, metadata_results, warm, response>>

\* line 138: the fallback scan returns, or its query raises
LikeReturn(r) ==
    /\ pc[r] = "like"
    /\ \E outcome \in {"ok", "error"} :
          IF outcome = "ok"
          THEN /\ fts_results' = [fts_results EXCEPT ![r] =
                      _enhanced_like_search(corpus, hybrid_query[r], request[r].limit)]
               /\ AfterLexical(r)
               /\ UNCHANGED <<raised, response>>
          ELSE /\ raised' = [raised EXCEPT ![r] = @ \cup {"like"}]
               /\ Fail(r)
               /\ UNCHANGED <<fts_results, invoked>>
    /\ UNCHANGED <<corpus, semantic_enabled, _current_query, request, hybrid_query,
                   semantic_results, metadata_results, warm>>

\* lines 186-240: the scan returns, finds no embeddings table, or raises
SemanticReturn(r) ==
    /\ pc[r] = "semantic"
    /\ \E outcome \in {"ok", "no_table", "error"} :
          /\ semantic_results' = [semantic_results EXCEPT ![r] =
                 IF outcome = "ok"
                 THEN _semantic_search(corpus, hybrid_query[r], request[r].limit)
                 ELSE <<>>]
          /\ raised' = [raised EXCEPT ![r] =
                 IF outcome = "error" THEN @ \cup {"semantic"} ELSE @]
    /\ pc' = [pc EXCEPT ![r] = "metadata"]
    /\ invoked' = [invoked EXCEPT ![r] = @ \cup {"metadata"}]
    /\ UNCHANGED <<corpus, semantic_enabled, _current_query, request, hybrid_query,
                   fts_results, metadata_results, warm, response>>

\* lines 96-105, then lines 58-75 or lines 177-203: the metadata queries return and
\* the fusion runs with no await between, or a metadata query raises
MetadataReturn(r) ==
    /\ pc[r] = "metadata"
    /\ \E outcome \in {"ok", "error"} :
          IF outcome = "ok"
          THEN LET results == _metadata_search(corpus, hybrid_query[r], request[r].limit)
                   combined == Fuse(fts_results[r], semantic_results[r], results,
                                    request[r].limit, _current_query)
               IN  /\ metadata_results' = [metadata_results EXCEPT ![r] = results]
                   /\ IF request[r].endpoint = "simple"
                      THEN /\ response' = [response EXCEPT ![r] =
                                  [NoResponse EXCEPT !.status = 200, !.search_type = "hybrid",
                                                     !.documents = combined]]
                           /\ pc' = [pc EXCEPT ![r] = "done"]
                      ELSE IF combined = <<>>
                      THEN /\ response' = [response EXCEPT ![r] = _no_results_response]
                           /\ pc' = [pc EXCEPT ![r] = "done"]
                      ELSE /\ response' = [response EXCEPT ![r] =
                                  [NoResponse EXCEPT !.documents = combined]]
                           /\ pc' = [pc EXCEPT ![r] = "claude"]
                   /\ UNCHANGED raised
          ELSE /\ raised' = [raised EXCEPT ![r] = @ \cup {"metadata"}]
               /\ Fail(r)
               /\ UNCHANGED metadata_results
    /\ UNCHANGED <<corpus, semantic_enabled, _current_query, request, hybrid_query,
                   fts_results, semantic_results, warm, invoked>>

\* generate_claude_response for a non-empty list (lines 337-403): with or without
\* an answer of the API, confidence and suggestions come from the same two methods
ClaudeReturn(r) ==
    /\ pc[r] = "claude"
    /\ \E s \in _generate_intelligent_suggestions(request[r].query, response[r].documents) :
          response' = [response EXCEPT ![r] =
              [status |-> 200, search_type |-> "hybrid",
               documents |-> response[r].documents,
               confidence |-> _calculate_semantic_confidence(request[r].query,
                                                             response[r].documents),
               suggestions |-> s]]
    /\ pc' = [pc EXCEPT ![r] = "done"]
    /\ UNCHANGED <<corpus, semantic_enabled, _current_query, request, hybrid_query,
                   fts_results, semantic_results, metadata_results, warm, invoked, raised>>

\* the response is sent and the coroutine ends
Deliver(r) ==
    /\ pc[r] = "done"
    /\ pc' = [pc EXCEPT ![r] = "idle"]
    /\ request' = [request EXCEPT ![r] = NoRequest]
    /\ hybrid_query' = [hybrid_query EXCEPT ![r] = <<>>]
    /\ fts_results' = [fts_results EXCEPT ![r] = <<>>]
    /\ semantic_results' = [semantic_results EXCEPT ![r] = <<>>]
    /\ metadata_results' = [metadata_results EXCEPT ![r] = <<>>]
    /\ warm' = [warm EXCEPT ![r] = FALSE]
    /\ invoked' = [invoked EXCEPT ![r] = {}]
    /\ raised' = [raised EXCEPT ![r] = {}]
    /\ response' = [response EXCEPT ![r] = NoResponse]
    /\ UNCHANGED <<corpus, semantic_enabled, _current_query>>

Idle ==
    /\ _current_query = <<>>
    /\ pc = [r \in Slots |-> "idle"]
    /\ request = [r \in Slots |-> NoRequest]
    /\ hybrid_query = [r \in Slots |-> <<>>]
    /\ fts_results = [r \in Slots |-> <<>>]
    /\ semantic_results = [r \in Slots |-> <<>>]
    /\ metadata_results = [r \in Slots |-> <<>>]
    /\ warm = [r \in Slots |-> FALSE]
    /\ invoked = [r \in Slots |-> {}]
    /\ raised = [r \in Slots |-> {}]
    /\ response = [r \in Slots |-> NoResponse]

Progress(r) ==
    \/ FtsReturn(r)
    \/ LikeReturn(r)
    \/ SemanticReturn(r)
    \/ MetadataReturn(r)
    \/ ClaudeReturn(r)
    \/ Deliver(r)

(***************************************************************************)
(* Spec: the service on any corpus, serving one request after another.     *)
(***************************************************************************)
Init ==
    /\ corpus \in Corpora
    /\ semantic_enabled \in BOOLEAN
    /\ Idle

Next ==
    \/ \E endpoint \in Endpoints, query \in Queries, limit \in Limits :
          /\ \A s \in Slots : pc[s] = "idle"
          /\ Receive(1, endpoint, query, limit)
    \/ \E r \in Slots : Progress(r)

Spec == Init /\ [][Next]_vars

(***************************************************************************)
(* ConcurrentSpec: requests of the two endpoints in flight together, on    *)
(* one corpus.                                                             *)
(***************************************************************************)
\* the request of a slot: a conversational search for a title in odd slots, a
\* simple search for an identifier in even slots
ConcurrentRequest(r) ==
    IF r % 2 = 1
    THEN [endpoint |-> "search", limit |-> 1,
          query |-> <<"o","n","e"," ","b","i","g"," ","b","e","a","u","t","i","f","u","l"," ","b","i","l","l"," ","a","c","t">>]
    ELSE [endpoint |-> "simple", limit |-> 1,
          query |-> <<"H","R","-","3","6","8","4">>]

ConcurrentInit ==
    /\ corpus = {1, 2}
    /\ semantic_enabled = TRUE
    /\ Idle

ConcurrentNext ==
    \/ \E r \in Slots :
          Receive(r, ConcurrentRequest(r).endpoint, ConcurrentRequest(r).query,
                  ConcurrentRequest(r).limit)
    \/ \E r \in Slots : Progress(r)

ConcurrentSpec == ConcurrentInit /\ [][ConcurrentNext]_vars

(***************************************************************************)
(* Properties                                                              *)
(***************************************************************************)
\* hybrid_search has returned to request r: the three strategies ran and the
\* fusion produced the list the response carries
Returned(r) ==
    /\ pc[r] \in {"claude", "done"}
    /\ "metadata" \in invoked[r]
    /\ "metadata" \notin raised[r]

\* the names of the documents of a list
Ids(list) == {list[i].id : i \in 1..Len(list)}

\* what hybrid_search makes of the request's own strategy lists and own query
OwnFusion(r) ==
    Fuse(fts_results[r], semantic_results[r], metadata_results[r],
         request[r].limit, hybrid_query[r])

\* C1: the fused list of every request holds each document id at most once,
\* also when a document is in several strategy lists.
C1_FusedIdsDistinct ==
    \A r \in Slots : Returned(r) =>
        \A i, j \in 1..Len(response[r].documents) :
            i # j => response[r].documents[i].id # response[r].documents[j].id

\* a fused list of two documents, one of them found by two strategies
C1_DocumentInTwoLists ==
    \E r \in Slots :
        /\ Returned(r)
        /\ Len(response[r].documents) >= 2
        /\ Ids(fts_results[r]) \cap Ids(metadata_results[r]) \cap Ids(response[r].documents) # {}

\* C2: in the list hybrid_search returns, no entry has a lower relevance_score
\* than the entry after it.
C2_FusedScoresDescend ==
    \A r \in Slots : Returned(r) =>
        \A i \in 1..(Len(response[r].documents) - 1) :
            response[r].documents[i].relevance_score
                >= response[r].documents[i + 1].relevance_score

\* a fused list whose best document is not the first the fusion met
C2_SortReordered ==
    \E r \in Slots :
        /\ Returned(r)
        /\ Len(response[r].documents) >= 2
        /\ fts_results[r] # <<>>
        /\ fts_results[r][1].id # response[r].documents[1].id
        /\ fts_results[r][1].id \in Ids(response[r].documents)
        /\ response[r].documents[1].relevance_score > response[r].documents[2].relevance_score

\* C3: with requests in flight together on the one service, the fused ordering and
\* scores of each request are those of its own lists and its own query.
C3_RequestsIndependent ==
    \A r \in Slots : Returned(r) => response[r].documents = OwnFusion(r)

\* C4: a request within the limits in which a strategy raised still ends with the
\* fused results of hybrid_search, the failing strategy having contributed an
\* empty list.
C4_StrategyFailureNonFatal ==
    \A r \in Slots :
      (pc[r] = "done" /\ raised[r] # {} /\ request[r].limit \in LimitMin..LimitMax) =>
        /\ Returned(r)
        /\ response[r].status = 200
        /\ response[r].search_type = "hybrid"
        /\ "semantic" \in raised[r] => semantic_results[r] = <<>>
        /\ "metadata" \in raised[r] => metadata_results[r] = <<>>

\* C5: a search_with_ai_response request within the limits whose fusion received
\* three empty lists answers with no documents, confidence 0.0 and the fallback
\* list of _generate_intelligent_suggestions, and without an error.
C5_TotalFailureResponse ==
    \A r \in Slots :
        (/\ pc[r] = "done"
         /\ request[r].endpoint = "search"
         /\ request[r].limit \in LimitMin..LimitMax
         /\ Returned(r)
         /\ fts_results[r] = <<>>
         /\ semantic_results[r] = <<>>
         /\ metadata_results[r] = <<>>) =>
            /\ response[r].status = 200
            /\ response[r].documents = <<>>
            /\ response[r].confidence = 0
            /\ response[r].suggestions = [list |-> FallbackSuggestions, unordered |-> {}]

\* C6: a search that runs after another query's search has left its state on the
\* service returns the ids and scores its own lists and query determine, the same
\* as on a fresh service.
C6_SecondRunAsFirst ==
    \A r \in Slots : (Returned(r) /\ warm[r]) => response[r].documents = OwnFusion(r)

\* a later request whose fused list holds a document with a bonus for its query
C6_LaterRunWithBonus ==
    \E r \in Slots :
        /\ Returned(r)
        /\ warm[r]
        /\ \E i \in 1..Len(response[r].documents) :
               phrase_bonus(hybrid_query[r], Doc(response[r].documents[i].id).title) > 0

\* C7: a request with a blank query or a limit outside [1, 50] is rejected with a
\* validation error and calls no strategy, on both endpoints.
C7_InvalidRejected ==
    \A r \in Slots :
        (/\ pc[r] # "idle"
         /\ \/ QueryIsBlank(request[r].query)
            \/ request[r].limit \notin LimitMin..LimitMax) =>
            /\ invoked[r] = {}
            /\ pc[r] = "done"
            /\ response[r].status \in {400, 422}

\* C8: with a limit of at least 1, every stored document whose identifier matches
\* an identifier extracted from the query is in the list of _metadata_search with
\* score 1.0.
C8_IdentifierMatchesKept ==
    \A r \in Slots : (Returned(r) /\ request[r].limit >= 1) =>
        \A d \in corpus :
            (\E p \in Range(_extract_identifiers(hybrid_query[r])) :
                 ILike(Doc(d).identifier, p)) =>
                [id |-> d, score |-> 100] \in Range(metadata_results[r])

\* C9: for the query "HR-3684" on a corpus with the identifier "HR-3684-117", the
\* metadata list holds that document with score 1.0 and it is first in the fused
\* list.
C9_IdentifierQueryRanksFirst ==
    \A r \in Slots :
        (/\ Returned(r)
         /\ request[r].query = <<"H","R","-","3","6","8","4">>
         /\ request[r].limit \in LimitMin..LimitMax) =>
            \A d \in corpus :
                Doc(d).identifier = <<"H","R","-","3","6","8","4","-","1","1","7">> =>
                    /\ [id |-> d, score |-> 100] \in Range(metadata_results[r])
                    /\ response[r].documents # <<>>
                    /\ response[r].documents[1].id = d

\* C10: for the query "one big beautiful bill act", a fused document titled "One Big
\* Beautiful Bill Act of 2025" has the +2.0 phrase bonus in its score and a score
\* above every fused document whose title does not hold the whole query.
C10_VerbatimTitleOnTop ==
    \A r \in Slots :
        (/\ Returned(r)
         /\ request[r].query = <<"o","n","e"," ","b","i","g"," ","b","e","a","u","t","i","f","u","l"," ","b","i","l","l"," ","a","c","t">>) =>
            \A i \in 1..Len(response[r].documents) :
                Doc(response[r].documents[i].id).title = <<"O","n","e"," ","B","i","g"," ","B","e","a","u","t","i","f","u","l"," ","B","i","l","l"," ","A","c","t"," ","o","f"," ","2","0","2","5">> =>
                    /\ response[r].documents[i].relevance_score > 2 * ScoreUnit
                    /\ \A j \in 1..Len(response[r].documents) :
                           ~Contains(lower(Doc(response[r].documents[j].id).title),
                                     lower(request[r].query)) =>
                               response[r].documents[i].relevance_score
                                   > response[r].documents[j].relevance_score

\* the sum of weight * 1 / (k + rank + 1) over the ranks at which d is in a list
RankSum(d, results, weight) ==
    LET RECURSIVE RankSumFrom(_)
        RankSumFrom(i) ==
            IF i > Len(results) THEN 0
            ELSE (IF results[i].id = d THEN weight * (RRFDen \div (K + i)) ELSE 0)
                 + RankSumFrom(i + 1)
    IN  RankSumFrom(1)

\* the step in which hybrid_search runs the fusion for request r and returns
FusionStep(r) == ~Returned(r) /\ Returned(r)'

MaxConfidenceDocs == 3

ConfidenceQueries == Queries \cup {<<"H","R","-","1">>}

\* a fused score without and with the verbatim bonus
LowScore == rrf_score(MetadataWeight, 3)
HighScore == rrf_score(LexicalWeight, 0) + 20 * RRFDen

\* fused lists: distinct documents, scores non-increasing
FusedLists ==
    UNION { { [i \in 1..n |-> [id |-> ids[i],
                               relevance_score |-> IF i <= h THEN HighScore ELSE LowScore]] :
                  h \in 0..n, ids \in {s \in [1..n -> DocIds] :
                                          \A i, j \in 1..n : i # j => s[i] # s[j]} } :
            n \in 0..MaxConfidenceDocs }

ConfidenceInit ==
    /\ corpus = DocIds
    /\ semantic_enabled = TRUE
    /\ _current_query = <<>>
    /\ pc = [r \in Slots |-> IF r = 1 THEN "confidence" ELSE "idle"]
    /\ \E query \in ConfidenceQueries :
          request = [r \in Slots |-> IF r = 1 THEN [endpoint |-> "search", query |-> query,
                                                    limit |-> LimitMax]
                                     ELSE NoRequest]
    /\ \E documents \in FusedLists :
          response = [r \in Slots |-> IF r = 1 THEN [NoResponse EXCEPT !.documents = documents]
                                      ELSE NoResponse]
    /\ hybrid_query = [r \in Slots |-> <<>>]
    /\ fts_results = [r \in Slots |-> <<>>]
    /\ semantic_results = [r \in Slots |-> <<>>]
    /\ metadata_results = [r \in Slots |-> <<>>]
    /\ warm = [r \in Slots |-> FALSE]
    /\ invoked = [r \in Slots |-> {}]
    /\ raised = [r \in Slots |-> {}]

\* lines 510-527 applied to the query and the list of slot r
ScoreConfidence(r) ==
    /\ pc[r] = "confidence"
    /\ response' = [response EXCEPT ![r].confidence =
           _calculate_semantic_confidence(request[r].query, response[r].documents)]
    /\ pc' = [pc EXCEPT ![r] = "scored"]
    /\ UNCHANGED <<corpus, semantic_enabled, _current_query, request, hybrid_query,
                   fts_results, semantic_results, metadata_results, warm, invoked, raised>>

ConfidenceSpec == ConfidenceInit /\ [][\E r \in Slots : ScoreConfidence(r)]_vars

\* C12: for every query and every fused list the confidence lies in [0, 1], and it
\* is exactly 0.0 for the empty list.
C12_ConfidenceInUnitInterval ==
    \A r \in Slots :
        pc[r] = "scored" =>
            /\ response[r].confidence >= 0
            /\ response[r].confidence <= ConfUnit
            /\ response[r].documents = <<>> => response[r].confidence = 0

\* two identifier matches and high scores: 0.2 + 0.3 + 0.3 + 0.4 is cut back to 1.0
C12_ClampedConfidence ==
    \E r \in Slots :
        /\ pc[r] = "scored"
        /\ Len(response[r].documents) = 2
        /\ \A i \in 1..2 :
              /\ Contains(upper(Doc(response[r].documents[i].id).identifier),
                          upper(request[r].query))
              /\ response[r].documents[i].relevance_score = HighScore
        /\ response[r].confidence = ConfUnit

\* the distinct documents of the three strategy lists of request r
Candidates(r) ==
    Ids(fts_results[r]) \cup Ids(semantic_results[r]) \cup Ids(metadata_results[r])

Discovery(r, d) ==
    LET all == fts_results[r] \o semantic_results[r] \o metadata_results[r]
    IN  CHOOSE i \in 1..Len(all) : all[i].id = d /\ \A j \in 1..(i - 1) : all[j].id # d

\* C14: of two fused documents with exactly equal final scores the one found by
\* more strategies comes first, then the one with the more recent last action
\* date, and only then the one discovered first.
C14_TieBreakByStrategiesThenDate ==
    LET \* the number of strategy lists of request r that hold document d
        StrategyCount(r, d) ==
            Cardinality({s \in {"lexical", "semantic", "metadata"} :
                d \in Ids(CASE s = "lexical" -> fts_results[r]
                            [] s = "semantic" -> semantic_results[r]
                            [] OTHER -> metadata_results[r])})
    IN
    \A r \in Slots :
        Returned(r) =>
            \A i, j \in 1..Len(response[r].documents) :
                LET a == response[r].documents[i]
                    b == response[r].documents[j]
                IN  (i < j /\ a.relevance_score = b.relevance_score) =>
                        \/ StrategyCount(r, a.id) > StrategyCount(r, b.id)
                        \/ /\ StrategyCount(r, a.id) = StrategyCount(r, b.id)
                           /\ Doc(a.id).last_action_date > Doc(b.id).last_action_date
                        \/ /\ StrategyCount(r, a.id) = StrategyCount(r, b.id)
                           /\ Doc(a.id).last_action_date = Doc(b.id).last_action_date
                           /\ Discovery(r, a.id) < Discovery(r, b.id)

(***************************************************************************)
(* IngestSpec: one request at a time while an ingestion script stores      *)
(* documents.  Each strategy opens its own session (lines 110, 190, 245)   *)
(* and reads the table as it stands when its query runs.                   *)
(***************************************************************************)
IngestQueries ==
    { <<"H","R","-","3","6","8","4">>,
      <<"i","n","f","r","a","s","t","r","u","c","t","u","r","e"," ","b","i","l","l">> }

IngestLimit == 2

\* comprehensive_ingestion.py lines 306-307: db.add(document); await db.commit()
Ingest(d) ==
    /\ d \notin corpus
    /\ corpus' = corpus \cup {d}
    /\ UNCHANGED <<semantic_enabled, _current_query, pc, request, hybrid_query,
                   fts_results, semantic_results, metadata_results, warm, invoked,
                   raised, response>>

IngestInit ==
    /\ corpus \in {{}, {1, 2}}
    /\ semantic_enabled = TRUE
    /\ Idle

IngestNext ==
    \/ \E endpoint \in Endpoints, query \in IngestQueries :
          /\ \A s \in Slots : pc[s] = "idle"
          /\ Receive(1, endpoint, query, IngestLimit)
    \/ \E r \in Slots : Progress(r)
    \/ \E d \in DocIds : Ingest(d)

IngestSpec == IngestInit /\ [][IngestNext]_vars

\* C15: every fused document is in the store when the fusion runs, and the three
\* strategies of a request read the corpus as of one snapshot, also while the
\* ingestion stores documents during the request.
C15_OneSnapshotPerRequest ==
    LET \* the three lists of request r are what the strategies read from the one corpus S
        ReadAsOf(r, S) ==
            /\ \/ fts_results[r] \in FtsRowLists(S, request[r].limit)
               \/ fts_results[r] = _enhanced_like_search(S, hybrid_query[r], request[r].limit)
            /\ \/ semantic_results[r] = <<>>
               \/ semantic_results[r] = _semantic_search(S, hybrid_query[r], request[r].limit)
            /\ metadata_results[r] = _metadata_search(S, hybrid_query[r], request[r].limit)
    IN
    \A r \in Slots :
        Returned(r) =>
            /\ Ids(response[r].documents) \subseteq corpus
            /\ \E S \in SUBSET DocIds : ReadAsOf(r, S)

\* the RRF aggregate of document d over the three lists of request r, the
\* metadata list being the one the fusion step receives
RrfAggregate(r, d, metadata) ==
    RankSum(d, fts_results[r], LexicalWeight)
    + RankSum(d, semantic_results[r], SemanticWeight)
    + RankSum(d, metadata, MetadataWeight)

\* C16: the final score of every fused document is the sum of weight / (k + rank + 1)
\* over every list and rank at which it appears (weights 0.5, 0.3, 0.2, k = 60) plus
\* its phrase/topic bonus; the scores the strategies gave do not enter.
C16_FinalScoreIsRrfPlusBonus ==
    [][\A r \in Slots :
        FusionStep(r) =>
            \A i \in 1..Len(response'[r].documents) :
                LET d == response'[r].documents[i].id
                IN  response'[r].documents[i].relevance_score
                      = RrfAggregate(r, d, metadata_results'[r])
                        + phrase_bonus(_current_query, Doc(d).title) * RRFDen
    ]_vars

\* a fused document found by all three strategies, with a full-text score that is
\* not the unit
C16_ScoredFromThreeRanks ==
    \E r \in Slots :
        /\ Returned(r)
        /\ \E i \in 1..Len(response[r].documents) :
              LET d == response[r].documents[i].id
              IN  /\ \E j \in 1..Len(fts_results[r]) :
                        fts_results[r][j].id = d /\ fts_results[r][j].score = 200
                  /\ d \in Ids(semantic_results[r])
                  /\ d \in Ids(metadata_results[r])
                  /\ response[r].documents[i].relevance_score
                        >= RrfAggregate(r, d, metadata_results[r])

(***************************************************************************)
(* TitleSpec: conversational searches, one at a time, whose query is the   *)
(* title of a stored bill or a question about one.                         *)
(***************************************************************************)
TitleQueries ==
    { <<"B","e","a","u","t","i","f","u","l"," ","P","a","r","k","s"," ","B","i","l","l">>,
      <<"w","h","a","t"," ","i","s"," ","t","h","e"," ","b","i","g"," ","b","e","a","u","t","i","f","u","l"," ","b","i","l","l">> }

TitleLimit == 2

TitleInit ==
    /\ corpus = {1, 2}
    /\ semantic_enabled \in BOOLEAN
    /\ Idle

TitleNext ==
    \/ \E query \in TitleQueries :
          /\ \A s \in Slots : pc[s] = "idle"
          /\ Receive(1, "search", query, TitleLimit)
    \/ \E r \in Slots : Progress(r)

TitleSpec == TitleInit /\ [][TitleNext]_vars

\* C17: in a search through search_with_ai_response a candidate gets the +2.0
\* verbatim bonus exactly when the caller's original query has more than two tokens
\* and appears, case-insensitively, inside its title, whatever _preprocess_query
\* made of the query.
C17_VerbatimBonusFromOriginalQuery ==
    [][
    LET \* the test of lines 303-304 on a query: more than two tokens, and verbatim in the title
        VerbatimInTitle(query, doc_title) ==
            /\ Len(split(lower(query))) > 2
            /\ Contains(lower(doc_title), lower(query))
    IN
    LET \* the bonus of lines 297-314 with the +2.0 decided on the caller's query
        BonusVerbatimFrom(original, current_query, doc_title) ==
            LET title == lower(doc_title)
                words == split(lower(current_query))
                matching_words ==
                    Cardinality({k \in 1..Len(words) : Contains(title, words[k]) /\ Len(words[k]) > 3})
                terms == Cardinality({k \in 1..Len(important_terms) :
                             /\ Contains(lower(current_query), important_terms[k])
                             /\ Contains(title, important_terms[k])})
            IN  (IF VerbatimInTitle(original, doc_title) THEN 20
                 ELSE IF Len(words) > 2 THEN 5 * matching_words ELSE 0) + 10 * terms
    IN
       \A r \in Slots :
        (FusionStep(r) /\ request[r].endpoint = "search") =>
            \A i \in 1..Len(response'[r].documents) :
                LET d == response'[r].documents[i].id
                IN  response'[r].documents[i].relevance_score
                      = RrfAggregate(r, d, metadata_results'[r])
                        + BonusVerbatimFrom(request[r].query, _current_query, Doc(d).title)
                          * RRFDen
    ]_vars

\* C18: for a query of two tokens or fewer no phrase/topic bonus of any kind is
\* applied: the final score of every fused document is its RRF aggregate.
C18_NoBonusForShortQueries ==
    [][\A r \in Slots :
        (FusionStep(r) /\ Len(split(request[r].query)) <= 2) =>
            \A i \in 1..Len(response'[r].documents) :
                response'[r].documents[i].relevance_score
                    = RrfAggregate(r, response'[r].documents[i].id, metadata_results'[r])
    ]_vars

\* C19: the fusion of a request runs when the metadata strategy returns, after the
\* lexical strategy and the semantic strategy (run whenever the model is loaded,
\* otherwise an empty list) have returned, with no strategy of the request left in
\* flight; and once it has run, the fused list and the three lists stay as they
\* are until the response is delivered.
C19_FusionAfterAllStrategiesOnce ==
    [][
    LET \* the strategy whose await request r is suspended in, if any
        InFlight(r) ==
            CASE pc[r] \in {"fts", "like"} -> {"lexical"}
              [] pc[r] = "semantic" -> {"semantic"}
              [] pc[r] = "metadata" -> {"metadata"}
              [] OTHER -> {}
    IN
       \A r \in Slots :
        /\ FusionStep(r) =>
              /\ InFlight(r) = {"metadata"}
              /\ InFlight(r)' = {}
              /\ {"lexical", "metadata"} \subseteq invoked[r]
              /\ semantic_enabled => "semantic" \in invoked[r]
              /\ "semantic" \notin invoked[r] => semantic_results[r] = <<>>
              /\ fts_results'[r] = fts_results[r]
              /\ semantic_results'[r] = semantic_results[r]
        /\ (Returned(r) /\ pc'[r] # "idle") =>
              /\ Returned(r)'
              /\ response'[r].documents = response[r].documents
              /\ fts_results'[r] = fts_results[r]
              /\ semantic_results'[r] = semantic_results[r]
              /\ metadata_results'[r] = metadata_results[r]
    ]_vars

\* a fusion over three lists that all hold documents
C19_FusedThreeLists ==
    \E r \in Slots :
        /\ Returned(r)
        /\ invoked[r] = {"lexical", "semantic", "metadata"}
        /\ fts_results[r] # <<>>
        /\ semantic_results[r] # <<>>
        /\ metadata_results[r] # <<>>
        /\ response[r].documents # <<>>

(***************************************************************************)
(* TimeoutSpec: searches of the simple endpoint, one at a time, under the  *)
(* scheduling of the event loop.  A coroutine whose awaited query has an   *)
(* answer is resumed, so the steps other than the return of the semantic   *)
(* scan are weakly fair; the scan is the operation that may take           *)
(* arbitrarily long.  One request is in progress at a time, so one         *)
(* fairness condition covers its steps.                                    *)
(***************************************************************************)
TimeoutLimit == 2

TimeoutInit ==
    /\ corpus \in {{1, 2}, {3, 4}}
    /\ semantic_enabled = TRUE
    /\ Idle

\* a step of a request other than the return of the semantic scan
ResumeOtherThanScan ==
    \E r \in Slots : FtsReturn(r) \/ LikeReturn(r) \/ MetadataReturn(r) \/ Deliver(r)

TimeoutNext ==
    \/ \E query \in Queries :
          /\ \A s \in Slots : pc[s] = "idle"
          /\ Receive(1, "simple", query, TimeoutLimit)
    \/ ResumeOtherThanScan
    \/ \E r \in Slots : SemanticReturn(r)

TimeoutFairness == WF_vars(ResumeOtherThanScan)

TimeoutSpec == TimeoutInit /\ [][TimeoutNext]_vars /\ TimeoutFairness

\* C20: a request waiting for the semantic scan eventually completes, whether or
\* not the scan ever finishes: after its timeout the scan counts as an empty list
\* and the fusion of the lexical and metadata lists is returned.
C20_SemanticTimeoutCompletes ==
    \A r \in Slots : (pc[r] = "semantic") ~> (pc[r] = "done")

(***************************************************************************)
(* The methods that are functions of their arguments, each applied to      *)
(* arguments drawn from bounded sets.  FunctionInput is the state in which *)
(* slot 1 holds the arguments: the corpus, the query and a document list.  *)
(***************************************************************************)
MaxQueryWords == 2

QueryWords ==
    { <<"b","i","l","l">>, <<"A","c","t">>, <<"t","h","e">>, <<"t","a","x">>,
      <<"J","o","h","n">>, <<"S","m","i","t","h">>, <<"H","R","-","3","6","8","4">>,
      <<"z","q">> }

\* queries of one to MaxQueryWords words, separated by one space
WordQueries ==
    {join(words) : words \in UNION {[1..n -> QueryWords] : n \in 1..MaxQueryWords}}

FunctionInput(stage, docs, query, limit, documents) ==
    /\ corpus = docs
    /\ semantic_enabled = TRUE
    /\ _current_query = <<>>
    /\ pc = [r \in Slots |-> IF r = 1 THEN stage ELSE "idle"]
    /\ request = [r \in Slots |-> IF r = 1 THEN [endpoint |-> "search", query |-> query,
                                                 limit |-> limit]
                                  ELSE NoRequest]
    /\ response = [r \in Slots |-> IF r = 1 THEN [NoResponse EXCEPT !.documents = documents]
                                   ELSE NoResponse]
    /\ hybrid_query = [r \in Slots |-> <<>>]
    /\ fts_results = [r \in Slots |-> <<>>]
    /\ semantic_results = [r \in Slots |-> <<>>]
    /\ metadata_results = [r \in Slots |-> <<>>]
    /\ warm = [r \in Slots |-> FALSE]
    /\ invoked = [r \in Slots |-> {}]
    /\ raised = [r \in Slots |-> {}]

(***************************************************************************)
(* PreprocessSpec: _preprocess_query applied to a query                    *)
(***************************************************************************)
PreprocessInit == \E query \in WordQueries : FunctionInput("preprocess", DocIds, query, LimitMax, <<>>)

\* lines 405-448 applied to the query of slot r
Preprocess(r) ==
    /\ pc[r] = "preprocess"
    /\ hybrid_query' = [hybrid_query EXCEPT ![r] = _preprocess_query(request[r].query)]
    /\ pc' = [pc EXCEPT ![r] = "preprocessed"]
    /\ UNCHANGED <<corpus, semantic_enabled, _current_query, request, fts_results,
                   semantic_results, metadata_results, warm, invoked, raised, response>>

PreprocessSpec == PreprocessInit /\ [][\E r \in Slots : Preprocess(r)]_vars

\* C21: for a query that is not empty after trimming, _preprocess_query does not
\* return the empty string: where removing the generic nouns would leave nothing
\* the text is kept.
C21_PreprocessNeverEmpty ==
    \A r \in Slots :
        (pc[r] = "preprocessed" /\ strip(request[r].query) # <<>>) =>
            hybrid_query[r] # <<>>

\* C22: when one or more of the top three results has the query inside its
\* identifier, the confidence is min(base + 0.3, 1.0) plus the relevance term
\* (capped at 1.0), the same for one, two or three matching results.
C22_IdentifierBoostOnce ==
    LET \* the query is a substring of the identifier of one of the top three documents
        AnyIdentifierMatch(query, documents) ==
            \E i \in 1..Len(Take(documents, 3)) :
                Contains(upper(Doc(documents[i].id).identifier), upper(query))
    IN
    LET \* min(avg_relevance * 0.5, 0.4) of lines 524-525, in units of 1/ConfUnit
        RelevanceTerm(documents) ==
            LET top3 == Take(documents, 3)
                total == SumScores(top3)
            IN  IF total >= 8 * RRFDen * Len(top3) THEN 48 * RRFDen
                ELSE (6 \div Len(top3)) * total
    IN
    \A r \in Slots :
        (/\ pc[r] = "scored"
         /\ response[r].documents # <<>>
         /\ AnyIdentifierMatch(request[r].query, response[r].documents)) =>
            response[r].confidence
                = Min(Min(Min(12 * RRFDen * Len(response[r].documents), ConfUnit)
                          + 36 * RRFDen, ConfUnit)
                      + RelevanceTerm(response[r].documents), ConfUnit)

(***************************************************************************)
(* SuggestionSpec: _generate_intelligent_suggestions applied to a list     *)
(***************************************************************************)
SuggestionInit ==
    \E documents \in FusedLists :
        FunctionInput("suggest", DocIds, <<"t","a","x">>, LimitMax, documents)

\* lines 529-560 applied to the list of slot r
Suggest(r) ==
    /\ pc[r] = "suggest"
    /\ \E s \in _generate_intelligent_suggestions(request[r].query, response[r].documents) :
          response' = [response EXCEPT ![r].suggestions = s]
    /\ pc' = [pc EXCEPT ![r] = "suggested"]
    /\ UNCHANGED <<corpus, semantic_enabled, _current_query, request, hybrid_query,
                   fts_results, semantic_results, metadata_results, warm, invoked, raised>>

SuggestionSpec == SuggestionInit /\ [][\E r \in Slots : Suggest(r)]_vars

\* C23: for a non-empty result list the suggestions are at most three content
\* words of the titles of the top three results followed by the document-type
\* labels of the top five, without duplicates, five entries at most, in the order
\* in which they were discovered.
C23_SuggestionsOrderedAndCapped ==
    LET \* the lists a result may come out as: the fixed list, or the elements of the
        \* set in any order
        Listings(result) ==
            IF result.unordered = {} THEN {result.list}
            ELSE LET n == Cardinality(result.unordered)
                 IN  {l \in [1..n -> result.unordered] : \A i, j \in 1..n : i # j => l[i] # l[j]}
    IN
    LET AppendNew(list, x) == IF x \in Range(list) THEN list ELSE Append(list, x)
        \* the content words in the order met, without repeats, three at most
        RECURSIVE ContentWords(_, _)
        ContentWords(title_words, found) ==
            IF title_words = <<>> \/ Len(found) >= 3 THEN found
            ELSE LET word == Head(title_words)
                 IN  ContentWords(Tail(title_words),
                         IF Len(word) > 4 /\ word \notin Range(suggestion_stopwords)
                         THEN AppendNew(found, word) ELSE found)
        RECURSIVE TitleWords(_)
        TitleWords(documents) ==
            IF documents = <<>> THEN <<>>
            ELSE split(lower(Doc(Head(documents).id).title)) \o TitleWords(Tail(documents))
        \* the document-type labels in the order their types are met
        RECURSIVE TypeLabels(_, _)
        TypeLabels(documents, found) ==
            IF documents = <<>> THEN found
            ELSE LET doc_type == Doc(Head(documents).id).document_type
                 IN  TypeLabels(Tail(documents),
                         IF doc_type = "bill"
                         THEN AppendNew(found, <<"c","o","n","g","r","e","s","s","i","o","n","a","l"," ","b","i","l","l","s">>)
                         ELSE IF doc_type = "executive_order"
                         THEN AppendNew(found, <<"e","x","e","c","u","t","i","v","e"," ","o","r","d","e","r","s">>)
                         ELSE found)
        InDiscoveryOrder(documents) ==
            Take(ContentWords(TitleWords(Take(documents, 3)), <<>>)
                 \o TypeLabels(Take(documents, 5), <<>>), 5)
    IN  \A r \in Slots :
            (pc[r] = "suggested" /\ response[r].documents # <<>>) =>
                \A l \in Listings(response[r].suggestions) :
                    l = InDiscoveryOrder(response[r].documents)

(***************************************************************************)
(* StrategySpec: _enhanced_like_search, _semantic_search and               *)
(* _metadata_search, each applied to a corpus, a query and a limit         *)
(***************************************************************************)
\* lines 140-178 applied to the arguments of slot r
LikeScan(r) ==
    /\ pc[r] = "strategy"
    /\ fts_results' = [fts_results EXCEPT ![r] =
           _enhanced_like_search(corpus, request[r].query, request[r].limit)]
    /\ pc' = [pc EXCEPT ![r] = "like_returned"]
    /\ UNCHANGED <<corpus, semantic_enabled, _current_query, request, hybrid_query,
                   semantic_results, metadata_results, warm, invoked, raised, response>>

\* lines 186-236 applied to the arguments of slot r
SemanticScan(r) ==
    /\ pc[r] = "strategy"
    /\ semantic_results' = [semantic_results EXCEPT ![r] =
           _semantic_search(corpus, request[r].query, request[r].limit)]
    /\ pc' = [pc EXCEPT ![r] = "semantic_returned"]
    /\ UNCHANGED <<corpus, semantic_enabled, _current_query, request, hybrid_query,
                   fts_results, metadata_results, warm, invoked, raised, response>>

\* lines 242-278 applied to the arguments of slot r
MetadataSearch(r) ==
    /\ pc[r] = "strategy"
    /\ metadata_results' = [metadata_results EXCEPT ![r] =
           _metadata_search(corpus, request[r].query, request[r].limit)]
    /\ pc' = [pc EXCEPT ![r] = "metadata_returned"]
    /\ UNCHANGED <<corpus, semantic_enabled, _current_query, request, hybrid_query,
                   fts_results, semantic_results, warm, invoked, raised, response>>

StrategySpec ==
    /\ \E docs \in {{1, 2}, {3, 4}, DocIds}, query \in WordQueries \cup Queries,
          limit \in {1, 2} :
          FunctionInput("strategy", docs, query, limit, <<>>)
    /\ [][\E r \in Slots : LikeScan(r) \/ SemanticScan(r) \/ MetadataSearch(r)]_vars

\* C24: every document the LIKE fallback returns has a positive score and is
\* matched by at least one token of the query in its title, summary, full text
\* or identifier, also for a query without a token longer than two characters.
C24_FallbackReturnsMatchesOnly ==
    \A r \in Slots :
        pc[r] = "like_returned" =>
            \A i \in 1..Len(fts_results[r]) :
                LET d == fts_results[r][i].id
                    tokens == split(lower(request[r].query))
                IN  /\ fts_results[r][i].score > 0
                    /\ \E k \in 1..Len(tokens) :
                          \/ ILike(Doc(d).title, tokens[k])
                          \/ ILike(Doc(d).summary, tokens[k])
                          \/ ILike(Doc(d).full_text, tokens[k])
                          \/ ILike(Doc(d).identifier, tokens[k])

\* C25: the semantic strategy returns the limit most similar documents among
\* all documents of the corpus that have an embedding and whose cosine
\* similarity to the query is not below the threshold, sorted by similarity
\* descending; a document whose similarity equals the threshold is kept.
C25_SemanticKeepsAtThreshold ==
    \A r \in Slots :
        pc[r] = "semantic_returned" =>
            LET similarity(d) == CosineSimilarity(encode(request[r].query), Doc(d).embedding)
                eligible == {d \in corpus : /\ Doc(d).embedding # <<>>
                                            /\ similarity(d) >= MinSimilarity}
                results == semantic_results[r]
                returned == {results[i].id : i \in 1..Len(results)}
            IN  /\ Len(results) = Min(request[r].limit, Cardinality(eligible))
                /\ Cardinality(returned) = Len(results)
                /\ returned \subseteq eligible
                /\ \A i \in 1..Len(results) : results[i].score = similarity(results[i].id)
                /\ \A i \in 1..Len(results), j \in 1..Len(results) :
                      i < j => results[i].score >= results[j].score
                /\ \A d \in eligible \ returned, i \in 1..Len(results) :
                      similarity(d) <= results[i].score

\* C26: the list _metadata_search returns holds each document id at most once;
\* every entry was matched by an extracted identifier or by a sponsor term, and
\* a document matched by both has the larger score 1.0; the list is empty when
\* the query yields no identifier and no sponsor term.
C26_MetadataDeduplicatedKeepsMax ==
    \A r \in Slots :
        pc[r] = "metadata_returned" =>
            LET results == metadata_results[r]
                patterns == _extract_identifiers(request[r].query)
                terms == _extract_potential_sponsors(request[r].query)
                ByIdentifier(d) ==
                    \E k \in 1..Len(patterns) : ILike(Doc(d).identifier, patterns[k])
                BySponsor(d) == \E k \in 1..Len(terms) : MetadataHas(d, terms[k])
            IN  /\ \A i \in 1..Len(results), j \in 1..Len(results) :
                      i # j => results[i].id # results[j].id
                /\ \A i \in 1..Len(results) :
                      /\ ByIdentifier(results[i].id) \/ BySponsor(results[i].id)
                      /\ results[i].score = IF ByIdentifier(results[i].id) THEN 100 ELSE 80
                /\ (patterns = <<>> /\ terms = <<>>) => results = <<>>

\* a document matched by its identifier and by its sponsor is listed once, with 1.0
C26_MatchedByBothRules ==
    \E r \in Slots :
        /\ pc[r] = "metadata_returned"
        /\ \E i \in 1..Len(metadata_results[r]) :
              LET d == metadata_results[r][i].id
                  patterns == _extract_identifiers(request[r].query)
                  terms == _extract_potential_sponsors(request[r].query)
              IN  /\ \E k \in 1..Len(patterns) : ILike(Doc(d).identifier, patterns[k])
                  /\ \E k \in 1..Len(terms) : MetadataHas(d, terms[k])
                  /\ metadata_results[r][i].score = 100

\* C29: every sponsor term _metadata_search takes from the query is a run of
\* two or more consecutive capitalized tokens of the query; a capitalized
\* token on its own is not a term.
C29_SponsorTermsAreCapitalizedRuns ==
    \A r \in Slots :
        pc[r] = "metadata_returned" =>
            LET words == split(request[r].query)
                terms == _extract_potential_sponsors(request[r].query)
            IN  \A k \in 1..Len(terms) :
                    LET tokens == split(terms[k])
                    IN  /\ Len(tokens) >= 2
                        /\ \A j \in 1..Len(tokens) : IsUpperChar(tokens[j][1])
                        /\ \E i \in 1..Len(words) :
                              /\ i + Len(tokens) - 1 <= Len(words)
                              /\ \A j \in 1..Len(tokens) : words[i + j - 1] = tokens[j]

\* C27: two fused documents with exactly equal final scores are listed in
\* discovery order: the lexical list is read before the semantic list and that
\* before the metadata list, each from its first rank on.
C27_TiesInDiscoveryOrder ==
    \A r \in Slots :
        Returned(r) =>
            \A i, j \in 1..Len(response[r].documents) :
                LET a == response[r].documents[i]
                    b == response[r].documents[j]
                IN  (i < j /\ a.relevance_score = b.relevance_score) =>
                        Discovery(r, a.id) < Discovery(r, b.id)

\* a fused list that holds two documents with one final score
C27_TieReturned ==
    \E r \in Slots :
        /\ Returned(r)
        /\ \E i, j \in 1..Len(response[r].documents) :
              /\ i < j
              /\ response[r].documents[i].relevance_score
                    = response[r].documents[j].relevance_score

(***************************************************************************)
(* EnhancedSearchService (semantic_search.py)                              *)
(***************************************************************************)
\* str.replace(old, new): the occurrences of old from the left, not overlapping
str_replace(s, old, new) ==
    LET RECURSIVE From(_)
        From(i) ==
            IF i > Len(s) THEN <<>>
            ELSE IF OccursAt(old, s, i) THEN new \o From(i + Len(old))
            ELSE <<s[i]>> \o From(i + 1)
    IN  From(1)

\* lines 121-132: re.sub(r'\s+', ' ', query.strip().lower()), then the four
\* replacements in turn
_process_query(query) ==
    LET normalized == lower(join(split(strip(query))))
        eo == str_replace(normalized, <<"e","o"," ">>,
                  <<"e","x","e","c","u","t","i","v","e"," ","o","r","d","e","r"," ">>)
        hr == str_replace(eo, <<"h","r"," ">>,
                  <<"h","o","u","s","e"," ","r","e","s","o","l","u","t","i","o","n"," ">>)
        sr == str_replace(hr, <<"s","r"," ">>,
                  <<"s","e","n","a","t","e"," ","r","e","s","o","l","u","t","i","o","n"," ">>)
        va == str_replace(sr, <<"v","a"," ">>,
                  <<"v","e","t","e","r","a","n","s"," ","a","f","f","a","i","r","s"," ">>)
    IN  va

\* the words of the queries given to _process_query
AbbreviationWords ==
    { <<"e","o">>,
      <<"h","r">>,
      <<"s","r">>,
      <<"v","a">>,
      <<"v","i","d","e","o">>,
      <<"c","h","r">>,
      <<"n","o","v","a">>,
      <<"1","3">> }

\* one call of _process_query
ProcessQuery(r) ==
    /\ pc[r] = "process"
    /\ hybrid_query' = [hybrid_query EXCEPT ![r] = _process_query(request[r].query)]
    /\ pc' = [pc EXCEPT ![r] = "processed"]
    /\ UNCHANGED <<corpus, semantic_enabled, _current_query, request, fts_results,
                   semantic_results, metadata_results, warm, invoked, raised, response>>

ProcessSpec ==
    /\ \E words \in UNION {[1..n -> AbbreviationWords] : n \in 1..MaxQueryWords} :
          FunctionInput("process", DocIds, join(words), LimitMax, <<>>)
    /\ [][\E r \in Slots : ProcessQuery(r)]_vars

\* C28: _process_query expands an abbreviation (eo, hr, sr, va) exactly where it
\* stands as a whole word of the query, the last word included, and leaves a word
\* that only contains or ends with those letters as it is.
C28_AbbreviationsExpandedAsWholeWords ==
    \A r \in Slots :
        pc[r] = "processed" =>
            LET words == split(lower(request[r].query))
                Expanded(word) ==
                    CASE word = <<"e","o">> ->
                           <<"e","x","e","c","u","t","i","v","e"," ","o","r","d","e","r">>
                      [] word = <<"h","r">> ->
                           <<"h","o","u","s","e"," ","r","e","s","o","l","u","t","i","o","n">>
                      [] word = <<"s","r">> ->
                           <<"s","e","n","a","t","e"," ","r","e","s","o","l","u","t","i","o","n">>
                      [] word = <<"v","a">> ->
                           <<"v","e","t","e","r","a","n","s"," ","a","f","f","a","i","r","s">>
                      [] OTHER -> word
            IN  hybrid_query[r] = join([i \in 1..Len(words) |-> Expanded(words[i])])

\* lines 134-145: re.findall(r'\b\w+\b', query.lower()) without the stopwords of
\* lines 35-38 and the terms of one character
_extract_search_terms(query) ==
    LET s == lower(query)
        RECURSIVE WordRun(_)
        WordRun(i) == IF i <= Len(s) /\ IsWordChar(s[i]) THEN 1 + WordRun(i + 1) ELSE 0
        RECURSIVE Terms(_)
        Terms(i) ==
            IF i > Len(s) THEN <<>>
            ELSE IF ~IsWordChar(s[i]) THEN Terms(i + 1)
            ELSE <<SubSeq(s, i, i + WordRun(i) - 1)>> \o Terms(i + WordRun(i))
        stopwords ==
            { <<"t","h","e">>, <<"a">>, <<"a","n">>, <<"a","n","d">>,
              <<"o","r">>, <<"b","u","t">>, <<"i","n">>, <<"o","n">>,
              <<"a","t">>, <<"t","o">>, <<"f","o","r">>, <<"o","f">>,
              <<"w","i","t","h">>, <<"b","y">>, <<"i","s">>, <<"a","r","e">>,
              <<"w","a","s">>, <<"w","e","r","e">>, <<"b","e">>, <<"b","e","e","n">>,
              <<"b","e","i","n","g">> }
    IN  SelectSeq(Terms(1), LAMBDA term : Len(term) >= 2 /\ term \notin stopwords)

\* lines 147-161
_exact_phrase_search(docs, query, limit) ==
    LET clean_query == strip(query)
    IN  IF Len(clean_query) < 3 THEN <<>>
        ELSE SqlLimit(RowOrder({d \in docs : \/ ILike(Doc(d).title, clean_query)
                                             \/ ILike(Doc(d).summary, clean_query)}), limit)

\* lines 163-180
_all_terms_search(docs, terms, limit) ==
    LET term_condition(d, term) ==
            \/ ILike(Doc(d).title, term)
            \/ ILike(Doc(d).summary, term)
            \/ ILike(Doc(d).identifier, term)
    IN  IF Len(terms) <= 1 THEN <<>>
        ELSE SqlLimit(RowOrder({d \in docs :
                 \A k \in 1..Len(terms) : term_condition(d, terms[k])}), limit)

\* lines 182-199
_any_term_search(docs, terms, limit) ==
    LET term_condition(d, term) ==
            \/ ILike(Doc(d).title, term)
            \/ ILike(Doc(d).summary, term)
            \/ ILike(Doc(d).identifier, term)
    IN  IF terms = <<>> THEN <<>>
        ELSE SqlLimit(RowOrder({d \in docs :
                 \E k \in 1..Len(terms) : term_condition(d, terms[k])}), limit)

\* lines 201-225: the terms of four characters or more, without their last one
_partial_match_search(docs, terms, limit) ==
    LET long == SelectSeq(terms, LAMBDA term : Len(term) >= 4)
        term_condition(d, term) ==
            \/ ILike(Doc(d).title, SubSeq(term, 1, Len(term) - 1))
            \/ ILike(Doc(d).summary, SubSeq(term, 1, Len(term) - 1))
    IN  IF terms = <<>> \/ long = <<>> THEN <<>>
        ELSE SqlLimit(RowOrder({d \in docs :
                 \E k \in 1..Len(long) : term_condition(d, long[k])}), limit)

\* lines 40-119 with document_type None: the list of document ids returned
enhanced_search(docs, query, limit, offset) ==
    LET search_terms == _extract_search_terms(query)
        \* `[doc for doc in matches if doc.id not in existing_ids]`
        New(results, matches) ==
            SelectSeq(matches, LAMBDA d : \A i \in 1..Len(results) : results[i] # d)
        exact == IF Len(strip(query)) > 3
                 THEN _exact_phrase_search(docs, query, limit) ELSE <<>>
        all_terms ==
            IF Len(exact) < limit /\ Len(search_terms) > 1
            THEN exact \o New(exact, _all_terms_search(docs, search_terms, limit - Len(exact)))
            ELSE exact
        any_term ==
            IF Len(all_terms) < limit
            THEN all_terms \o New(all_terms,
                     _any_term_search(docs, search_terms, limit - Len(all_terms)))
            ELSE all_terms
        results ==
            IF Len(any_term) < limit
            THEN any_term \o New(any_term,
                     _partial_match_search(docs, search_terms, limit - Len(any_term)))
            ELSE any_term
    IN  SubSeq(results, offset + 1, Min(offset + limit, Len(results)))

(***************************************************************************)
(* PageSpec: the search endpoint of test_server.py, which pages through    *)
(* enhanced_search                                                         *)
(***************************************************************************)
\* test_server.py lines 84-127, for a request with the given offset
search_documents(r, offset) ==
    /\ pc[r] = "page"
    /\ request' = [request EXCEPT ![r] =
           [endpoint |-> "search", query |-> request[r].query,
            limit |-> request[r].limit, offset |-> offset]]
    /\ response' = [response EXCEPT ![r] =
           IF QueryIsBlank(request[r].query)
           THEN [NoResponse EXCEPT !.status = 400]
           ELSE LET documents ==
                        enhanced_search(corpus, request[r].query, request[r].limit, offset)
                IN  [NoResponse EXCEPT
                        !.status = 200,
                        !.search_type = "enhanced_keyword",
                        !.documents = [i \in 1..Len(documents) |->
                            [id |-> documents[i], relevance_score |-> ScoreUnit]]]]
    /\ pc' = [pc EXCEPT ![r] = "paged"]
    /\ UNCHANGED <<corpus, semantic_enabled, _current_query, hybrid_query, fts_results,
                   semantic_results, metadata_results, warm, invoked, raised>>

PageSpec ==
    /\ \E docs \in {{1, 2}, {3, 4}, DocIds}, query \in Queries, limit \in {1, 2} :
          FunctionInput("page", docs, query, limit, <<>>)
    /\ [][\E r \in Slots, offset \in {0, 1, 2} : search_documents(r, offset)]_vars

\* C30: the documents returned for (query, limit, offset) are the entries
\* offset .. offset + limit - 1 of the whole tiered ranking of the query: at most
\* limit documents, and at least one whenever more than offset documents are in
\* the ranking.
C30_PageOfTheWholeRanking ==
    \A r \in Slots :
        (pc[r] = "paged" /\ response[r].status = 200) =>
            LET ranking == enhanced_search(corpus, request[r].query,
                                           Cardinality(corpus) + 1, 0)
                first == request[r].offset + 1
                last == Min(request[r].offset + request[r].limit, Len(ranking))
                page == [i \in 1..Len(response[r].documents) |-> response[r].documents[i].id]
            IN  /\ page = SubSeq(ranking, first, last)
                /\ Len(page) <= request[r].limit
                /\ Len(ranking) > request[r].offset => page # <<>>
====
